---------------------------- MODULE Spec2Model ----------------------------
(***************************************************************************)
(* Model of the sale / stock transaction of the auto-glass MIS             *)
(* (src/app.py: add_product, new_sale, new_purchase_order; src/run.py:      *)
(* init_database; src/main.py: add_product) over its SQLite database.      *)
(*                                                                         *)
(* The committed database is the tables products, sales and items, the     *)
(* user table and the two purchase order tables of app.py, and the tables  *)
(* users, suppliers and products of main.py's own models, which have       *)
(* other names and are written by main.py only.                            *)
(* A request runs in its own SQLAlchemy session: rows it adds and the      *)
(* attribute changes it makes live in the session (sess) until             *)
(* db.session.commit(), and are discarded when the request ends with an    *)
(* exception (Flask-SQLAlchemy removes the session at teardown, which      *)
(* rolls the transaction back).                                            *)
(*                                                                         *)
(* The database is the single SQLite file named at app.py:25.  The first   *)
(* INSERT of a transaction (db.session.flush() at app.py:297) takes the    *)
(* database write lock, which is held until COMMIT or ROLLBACK; a second   *)
(* writer waits for it and gives up with OperationalError ("database is    *)
(* locked") when the busy timeout expires.  Readers see committed rows     *)
(* only.                                                                   *)
(*                                                                         *)
(* new_sale reads the lines of its form inside the item loop              *)
(* (request.form.getlist at app.py:301-303), after the flush: the model    *)
(* draws the form when the request enters the loop.                        *)
(*                                                                         *)
(* Prices are modelled as integers (whole currency units); the source      *)
(* keeps them as floats.                                                   *)
(*                                                                         *)
(* Specifications:                                                         *)
(*   Spec            add_product and two clients of new_sale               *)
(*   SpecCommitFail  Spec with a COMMIT that may fail                      *)
(*   SpecForm        Spec with each sale form fixed when its request is    *)
(*                   sent                                                  *)
(*   SpecLive        the sale requests under fair scheduling               *)
(*   SpecOps         add_product, new_sale, new_purchase_order and the     *)
(*                   seeding of run.py over one database                   *)
(*   SpecAuth        requests with any session cookie or token to app.py   *)
(*                   and to main.py                                        *)
(*   SpecReports     requests to the admin-only routes of both             *)
(*                   applications                                          *)
(*   SpecPO          add_product and two clients of new_purchase_order     *)
(*   SpecSeed        the seeding scripts run.py and main.py, each run      *)
(*                   more than once                                        *)
(***************************************************************************)
EXTENDS Integers, Sequences, FiniteSets

(* ------------------------------ bounds -------------------------------- *)

\* rows the product table may hold
MaxProducts == 2
\* rows the sale table may hold
MaxSales == 2
\* rows the sale_item table may hold, and so the lines of one sale form
MaxItems == 2
\* largest quantity typed into a sale line
MaxQty == 2
\* sample sales one seeding creates: stands for range(20) of init_database
SeedSales == 1
\* most items of one sample sale: stands for the upper end of randint(1, 3)
SeedLines == 1
\* rows the purchase_order table may hold, counting the orders in progress
MaxPOs == 2
\* rows the purchase_order_item table may hold
MaxPOItems == 1
\* lines of one purchase order form where two clients create orders
MaxPOLines == 2
\* runs of one seeding script
MaxRuns == 2
\* product rows add_product may create where it runs beside the other operations
OpsProducts == 1

\* concurrent requests (server threads)
Reqs == {1, 2}
\* request.form['price'] of add_product
Prices == {1, 2}
\* request.form['stock_quantity'] of add_product: int() accepts any integer
StockInputs == {-1, 1, 2}
\* request.form.getlist('quantity')[i] of new_sale: int() accepts any integer
Quantities == (-1)..MaxQty
\* request.form.getlist('product_id')[i]: the ids the table may hold; an id
\* names no product while the table holds fewer rows
ProductIds == 1..MaxProducts

Lines == ProductIds \X Quantities
Forms == UNION {[1..n -> Lines] : n \in 0..MaxItems}
\* the lines of a purchase order form: product_id, quantity, unit_price
POLines == ProductIds \X (1..MaxQty) \X Prices
POForms == UNION {[1..n -> POLines] : n \in 0..MaxPOItems}

\* the seeding scripts
Scripts == {"run.py", "main.py"}

\* supplier_id of a product added with the supplier field left empty
\* ("... if request.form['supplier_id'] else None")
NoSupplier == 0

VARIABLES
    products,      \* committed product table: id -> [price, stock_quantity]
    sales,         \* committed sale table: id -> [id, total_amount, user_id,
                   \* customer_id, payment_method, status]
    items,         \* committed sale_item table, in insertion order
    lock,          \* request holding the SQLite write lock, 0 when free,
                   \* ScriptLock while the seeding script of run.py holds it
    pc,            \* per request: "idle", "flush" (at db.session.flush(), waiting
                   \* for the write lock) or "loop" (inside the transaction)
    form,          \* per request: the (product_id, quantity) lines of its form,
                   \* which the handler reads inside the item loop
    sess,          \* per request: the SQLAlchemy session of the open transaction
    result,        \* per request: outcome of its last finished new_sale
    createdStock,  \* history: stock_quantity each product was created with
    formOf,        \* history: the form each committed sale was submitted with
    atSubmit,      \* history, per request: the committed stock and the number of
                   \* committed sale items when the request was submitted
    users,         \* committed user table: id -> [username, role]
    purchase_orders, \* committed purchase_order table, in insertion order
    po_items,      \* committed purchase_order_item table, in insertion order
    suppliers,     \* committed supplier table: id -> name
    customers,     \* committed customer table: id -> name
    supplier_id,   \* the supplier_id column of the product table: product id ->
                   \* supplier id, 0 for NULL
    main_users,    \* main.py's committed table users: id -> [username, role]
    main_suppliers, \* main.py's committed table suppliers: id -> name
    main_products, \* main.py's committed table products: id -> [price,
                   \* stock_quantity, supplier_id]
    runs           \* history: how often each seeding script has run

\* the tables only the seeding scripts write, and the count of their runs
seedTables == <<suppliers, customers, runs>>

\* the tables of main.py's models (main.py:49-117), which live beside
\* app.py's in the same SQLite file under their own names
mainTables == <<main_users, main_suppliers, main_products>>

\* the tables and columns new_sale never touches
otherTables == <<users, purchase_orders, po_items, supplier_id, seedTables, mainTables>>

vars == <<products, sales, items, lock, pc, form, sess, result,
          createdStock, formOf, atSubmit, users, purchase_orders, po_items,
          suppliers, customers, supplier_id, runs,
          main_users, main_suppliers, main_products>>

(* ------------------------------ helpers ------------------------------- *)

\* ids of the committed product rows
ProductRows == 1..Len(products)

\* requests that have been submitted and have not finished
InFlight == {r \in Reqs : pc[r] \in {"flush", "loop"}}

\* the stock_quantity column of the committed product table
CommittedStock == [p \in ProductRows |-> products[p].stock_quantity]

NotSubmitted == [stock |-> <<>>, nitems |-> 0]

\* what new_sale takes from the login session and the form to build the Sale:
\* current_user.id, request.form['customer_id'] (0 for None) and
\* request.form['payment_method']
NoHeader == [user_id |-> 0, customer_id |-> 0, payment_method |-> ""]

\* the request of the logged-in admin paying cash, with no customer chosen
AdminCashHeader == [user_id |-> 1, customer_id |-> 0, payment_method |-> "cash"]

\* the session of a request that has no open transaction
NoSession ==
    [sale_id |-> 0, i |-> 0, total |-> 0, pending |-> <<>>, stock |-> <<>>,
     header |-> NoHeader]

\* the Sale row: status takes the column default
SaleRow(sid, total_amount, h) ==
    [id |-> sid, total_amount |-> total_amount, user_id |-> h.user_id,
     customer_id |-> h.customer_id, payment_method |-> h.payment_method,
     status |-> "completed"]

\* Product.query.get(product_id) is None
ProductMissing(pid) == pid \notin ProductRows

\* product.stock_quantity as the session sees it: the object is loaded from the
\* committed row on its first get() and is the same object (identity map) on
\* every later get() of the transaction
SessionStockReloaded(r, pid) == products[pid].stock_quantity
SessionStockBeforeLock(r, pid) ==
    IF pid \in DOMAIN sess[r].stock THEN sess[r].stock[pid]
    ELSE IF pid \in DOMAIN atSubmit[r].stock THEN atSubmit[r].stock[pid]
    ELSE products[pid].stock_quantity
SessionStock(r, pid) ==
    IF pid \in DOMAIN sess[r].stock THEN sess[r].stock[pid] ELSE products[pid].stock_quantity

\* total_price = unit_price * quantity
LineTotalUnit(unit_price, quantity) == unit_price
LineTotal(unit_price, quantity) == unit_price * quantity

\* total += total_price
AccumulateLast(total, total_price) == total_price
Accumulate(total, total_price) == total + total_price

\* product.stock_quantity -= quantity
Decrement(stock, quantity) == stock - quantity

\* the SaleItem built for one line
SaleItemRowOfFirstSale(sid, pid, quantity, unit_price) ==
    [sale_id |-> 1, product_id |-> pid, quantity |-> quantity,
     unit_price |-> unit_price, total_price |-> LineTotal(unit_price, quantity)]
SaleItemRow(sid, pid, quantity, unit_price) ==
    [sale_id |-> sid, product_id |-> pid, quantity |-> quantity,
     unit_price |-> unit_price, total_price |-> LineTotal(unit_price, quantity)]

\* the product table after COMMIT writes the session's changed stock
CommitProducts(s) ==
    [p \in ProductRows |->
        IF p \in DOMAIN s.stock
        THEN [products[p] EXCEPT !.stock_quantity = s.stock[p]]
        ELSE products[p]]

\* sums used to state the claims
RECURSIVE SumTotalPrice(_)
SumTotalPrice(rows) ==
    IF rows = <<>> THEN 0
    ELSE rows[1].total_price + SumTotalPrice(Tail(rows))

RECURSIVE SumQuantity(_, _)
SumQuantity(rows, pid) ==
    IF rows = <<>> THEN 0
    ELSE (IF rows[1].product_id = pid THEN rows[1].quantity ELSE 0)
         + SumQuantity(Tail(rows), pid)

RECURSIVE FormQuantity(_, _)
FormQuantity(f, pid) ==
    IF f = <<>> THEN 0
    ELSE (IF f[1][1] = pid THEN f[1][2] ELSE 0) + FormQuantity(Tail(f), pid)

ItemsOf(sid) == SelectSeq(items, LAMBDA it : it.sale_id = sid)

(* ------------------------------- Init --------------------------------- *)

\* the database created by db.create_all() and the admin user added at start-up:
\* the other tables are empty, no request is running
Init ==
    /\ products = <<>>
    /\ sales = <<>>
    /\ items = <<>>
    /\ lock = 0
    /\ pc = [r \in Reqs |-> "idle"]
    /\ form = [r \in Reqs |-> <<>>]
    /\ sess = [r \in Reqs |-> NoSession]
    /\ result = [r \in Reqs |-> "none"]
    /\ createdStock = <<>>
    /\ formOf = <<>>
    /\ atSubmit = [r \in Reqs |-> NotSubmitted]
    /\ users = <<[username |-> "admin", role |-> "admin"]>>
    /\ purchase_orders = <<>>
    /\ po_items = <<>>
    /\ suppliers = <<>>
    /\ customers = <<>>
    /\ supplier_id = <<>>
    /\ runs = [s \in Scripts |-> 0]
    /\ main_users = <<>>
    /\ main_suppliers = <<>>
    /\ main_products = <<>>

(* ------------------------------ actions ------------------------------- *)

\* add_product POST: one INSERT and COMMIT; as a writer it waits for the lock;
\* maxProducts bounds the rows of the product table
AddProductUpTo(maxProducts) ==
    \E price \in Prices, stock_quantity \in StockInputs :
        /\ Len(products) < maxProducts
        /\ lock = 0
        /\ products' = Append(products, [price |-> price, stock_quantity |-> stock_quantity])
        /\ createdStock' = Append(createdStock, stock_quantity)
        /\ supplier_id' = Append(supplier_id, NoSupplier)
        /\ UNCHANGED <<sales, items, lock, pc, form, sess, result, formOf, atSubmit>>
        /\ UNCHANGED <<users, purchase_orders, po_items, seedTables, mainTables>>

AddProduct == AddProductUpTo(MaxProducts)

\* the write lock after the INSERT of db.session.flush() by request r
FlushLock(r) == r

\* the committed sale table after db.session.flush() has INSERTed the sale row
\* inside the open transaction: the row is not committed
FlushedSalesVisible(row) == Append(sales, row)
FlushedSales(row) == sales

\* new_sale POST arrives with header h: the Sale object is built with
\* total_amount 0 and added to the session; no statement has reached the database
NewSaleSubmitWith(r, h) ==
    /\ pc[r] = "idle"
    /\ Len(sales) + Cardinality(InFlight) < MaxSales
    /\ pc' = [pc EXCEPT ![r] = "flush"]
    /\ result' = [result EXCEPT ![r] = "none"]
    /\ sess' = [sess EXCEPT ![r] = [NoSession EXCEPT !.header = h]]
    /\ atSubmit' = [atSubmit EXCEPT ![r] =
                      [stock |-> CommittedStock, nitems |-> Len(items)]]
    /\ UNCHANGED <<products, sales, items, lock, form, createdStock, formOf>>
    /\ UNCHANGED otherTables

\* new_sale POST of the logged-in admin, paying cash
NewSaleSubmit(r) == NewSaleSubmitWith(r, AdminCashHeader)

\* db.session.flush(): the INSERT of the sale opens a transaction, takes the
\* write lock once it is free and gives the sale its id; nothing is committed.
\* The handler then enters the loop over the form's lines f
NewSaleFlushOf(r, forms) ==
    \E f \in forms :
    /\ pc[r] = "flush"
    /\ lock = 0
    /\ Len(items) + Len(f) <= MaxItems
    /\ lock' = FlushLock(r)
    /\ pc' = [pc EXCEPT ![r] = "loop"]
    /\ form' = [form EXCEPT ![r] = f]
    /\ sess' = [sess EXCEPT ![r] =
                  [sale_id |-> Len(sales) + 1, i |-> 1, total |-> 0,
                   pending |-> <<>>, stock |-> <<>>, header |-> sess[r].header]]
    /\ sales' = FlushedSales(SaleRow(Len(sales) + 1, 0, sess[r].header))
    /\ UNCHANGED <<products, items, result, createdStock, formOf, atSubmit>>
    /\ UNCHANGED otherTables

NewSaleFlush(r) == NewSaleFlushOf(r, Forms)

\* db.session.flush() while another transaction keeps the write lock until the
\* busy timeout expires: the INSERT raises OperationalError and the request ends
NewSaleBusy(r) ==
    /\ pc[r] = "flush"
    /\ lock \notin {0, r}
    /\ pc' = [pc EXCEPT ![r] = "idle"]
    /\ result' = [result EXCEPT ![r] = "OperationalError"]
    /\ sess' = [sess EXCEPT ![r] = NoSession]
    /\ atSubmit' = [atSubmit EXCEPT ![r] = NotSubmitted]
    /\ UNCHANGED <<products, sales, items, lock, form, createdStock, formOf>>
    /\ UNCHANGED otherTables

\* one iteration of the item loop for a product that exists
NewSaleItem(r) ==
    /\ pc[r] = "loop"
    /\ sess[r].i <= Len(form[r])
    /\ LET product_id == form[r][sess[r].i][1]
           quantity == form[r][sess[r].i][2]
       IN  /\ ~ProductMissing(product_id)
           /\ LET unit_price == products[product_id].price
                  row == SaleItemRow(sess[r].sale_id, product_id, quantity, unit_price)
                  stock == Decrement(SessionStock(r, product_id), quantity)
              IN  sess' = [sess EXCEPT ![r] =
                     [sale_id |-> sess[r].sale_id,
                      i |-> sess[r].i + 1,
                      total |-> Accumulate(sess[r].total, row.total_price),
                      pending |-> Append(sess[r].pending, row),
                      header |-> sess[r].header,
                      stock |-> [p \in DOMAIN sess[r].stock \cup {product_id} |->
                                    IF p = product_id THEN stock ELSE sess[r].stock[p]]]]
    /\ UNCHANGED <<products, sales, items, lock, pc, form, result,
                   createdStock, formOf, atSubmit>>
    /\ UNCHANGED otherTables

\* one iteration of the item loop for a product id with no row: product is None
\* and product.price raises AttributeError; the request ends, the session is
\* removed and its transaction rolled back
NewSaleItemMissing(r) ==
    /\ pc[r] = "loop"
    /\ sess[r].i <= Len(form[r])
    /\ ProductMissing(form[r][sess[r].i][1])
    /\ lock' = 0
    /\ pc' = [pc EXCEPT ![r] = "idle"]
    /\ form' = [form EXCEPT ![r] = <<>>]
    /\ sess' = [sess EXCEPT ![r] = NoSession]
    /\ result' = [result EXCEPT ![r] = "AttributeError"]
    /\ atSubmit' = [atSubmit EXCEPT ![r] = NotSubmitted]
    /\ UNCHANGED <<products, sales, items, createdStock, formOf>>
    /\ UNCHANGED otherTables

\* after the loop: sale.total_amount = total and db.session.commit(): the sale,
\* its items and the changed stock become the committed rows in one COMMIT
NewSaleCommitBlocks(r) ==
    /\ pc[r] = "loop"
    /\ sess[r].i > Len(form[r])
    /\ UNCHANGED vars
NewSaleCommit(r) ==
    /\ pc[r] = "loop"
    /\ sess[r].i > Len(form[r])
    /\ sales' = Append(sales, SaleRow(sess[r].sale_id, sess[r].total, sess[r].header))
    /\ items' = items \o sess[r].pending
    /\ products' = CommitProducts(sess[r])
    /\ formOf' = Append(formOf, form[r])
    /\ lock' = 0
    /\ pc' = [pc EXCEPT ![r] = "idle"]
    /\ form' = [form EXCEPT ![r] = <<>>]
    /\ sess' = [sess EXCEPT ![r] = NoSession]
    /\ result' = [result EXCEPT ![r] = "ok"]
    /\ atSubmit' = [atSubmit EXCEPT ![r] = NotSubmitted]
    /\ UNCHANGED createdStock
    /\ UNCHANGED otherTables

Next ==
    \/ AddProduct
    \/ \E r \in Reqs : NewSaleSubmit(r)
    \/ \E r \in Reqs : NewSaleFlush(r)
    \/ \E r \in Reqs : NewSaleBusy(r)
    \/ \E r \in Reqs : NewSaleItem(r)
    \/ \E r \in Reqs : NewSaleItemMissing(r)
    \/ \E r \in Reqs : NewSaleCommit(r)

Spec == Init /\ [][Next]_vars

(* ----------------------- a commit that fails -------------------------- *)

\* db.session.commit() raises (app.py:323): SQLite keeps none of the
\* transaction, SQLAlchemy rolls the session back, and new_sale has no
\* try/except, so the exception leaves the handler and the request is over
NewSaleCommitRetries(r) ==
    /\ pc[r] = "loop"
    /\ sess[r].i > Len(form[r])
    /\ result[r] = "none"
    /\ result' = [result EXCEPT ![r] = "SQLAlchemyError"]
    /\ UNCHANGED <<products, sales, items, lock, pc, form, sess,
                   createdStock, formOf, atSubmit>>
    /\ UNCHANGED otherTables
NewSaleCommitFails(r) ==
    /\ pc[r] = "loop"
    /\ sess[r].i > Len(form[r])
    /\ lock' = 0
    /\ pc' = [pc EXCEPT ![r] = "idle"]
    /\ form' = [form EXCEPT ![r] = <<>>]
    /\ sess' = [sess EXCEPT ![r] = NoSession]
    /\ result' = [result EXCEPT ![r] = "SQLAlchemyError"]
    /\ atSubmit' = [atSubmit EXCEPT ![r] = NotSubmitted]
    /\ UNCHANGED <<products, sales, items, createdStock, formOf>>
    /\ UNCHANGED otherTables

NextCommitFail ==
    \/ Next
    \/ \E r \in Reqs : NewSaleCommitFails(r)

\* the sale transaction over a database whose COMMIT may fail
SpecCommitFail == Init /\ [][NextCommitFail]_vars

(* ------------- the sale form as it arrives with the request ----------- *)

\* the lines of the sale forms that requests in progress have sent
LinesInFlight(r) ==
    IF \E o \in InFlight : o # r
    THEN Len(form[CHOOSE o \in InFlight : o # r])
    ELSE 0

\* new_sale POST arrives carrying its form f (request.form is fixed when the
\* request is sent, the handler reads it later)
NewSaleSubmitForm(r) ==
    \E f \in Forms :
        /\ pc[r] = "idle"
        /\ Len(sales) + Cardinality(InFlight) < MaxSales
        /\ Len(items) + LinesInFlight(r) + Len(f) <= MaxItems
        /\ pc' = [pc EXCEPT ![r] = "flush"]
        /\ form' = [form EXCEPT ![r] = f]
        /\ result' = [result EXCEPT ![r] = "none"]
        /\ sess' = [sess EXCEPT ![r] = [NoSession EXCEPT !.header = AdminCashHeader]]
        /\ atSubmit' = [atSubmit EXCEPT ![r] =
                          [stock |-> CommittedStock, nitems |-> Len(items)]]
        /\ UNCHANGED <<products, sales, items, lock, createdStock, formOf>>
        /\ UNCHANGED otherTables

\* db.session.flush() of a request whose form arrived with it
NewSaleFlushForm(r) ==
    /\ pc[r] = "flush"
    /\ lock = 0
    /\ lock' = FlushLock(r)
    /\ pc' = [pc EXCEPT ![r] = "loop"]
    /\ sess' = [sess EXCEPT ![r] =
                  [sale_id |-> Len(sales) + 1, i |-> 1, total |-> 0,
                   pending |-> <<>>, stock |-> <<>>, header |-> sess[r].header]]
    /\ sales' = FlushedSales(SaleRow(Len(sales) + 1, 0, sess[r].header))
    /\ UNCHANGED <<products, items, form, result, createdStock, formOf, atSubmit>>
    /\ UNCHANGED otherTables

\* the write lock is held by another transaction until the busy timeout of
\* the flush runs out; the form of the failed request is dropped with it
NewSaleBusyForm(r) ==
    /\ pc[r] = "flush"
    /\ lock \notin {0, r}
    /\ pc' = [pc EXCEPT ![r] = "idle"]
    /\ form' = [form EXCEPT ![r] = <<>>]
    /\ result' = [result EXCEPT ![r] = "OperationalError"]
    /\ sess' = [sess EXCEPT ![r] = NoSession]
    /\ atSubmit' = [atSubmit EXCEPT ![r] = NotSubmitted]
    /\ UNCHANGED <<products, sales, items, lock, createdStock, formOf>>
    /\ UNCHANGED otherTables

NextForm ==
    \/ AddProduct
    \/ \E r \in Reqs : NewSaleSubmitForm(r)
    \/ \E r \in Reqs : NewSaleFlushForm(r)
    \/ \E r \in Reqs : NewSaleBusyForm(r)
    \/ \E r \in Reqs : NewSaleItem(r)
    \/ \E r \in Reqs : NewSaleItemMissing(r)
    \/ \E r \in Reqs : NewSaleCommit(r)

\* two clients sending sale requests whose forms are known from the start
SpecForm == Init /\ [][NextForm]_vars

(* ------------------ sale requests under fair scheduling --------------- *)

\* the next step of the handler of request r, whatever it is
NewSaleStep(r) ==
    \/ NewSaleFlush(r)
    \/ NewSaleBusy(r)
    \/ NewSaleItem(r)
    \/ NewSaleItemMissing(r)
    \/ NewSaleCommit(r)

NextLive ==
    \/ AddProductUpTo(OpsProducts)
    \/ \E r \in Reqs : NewSaleSubmit(r)
    \/ \E r \in Reqs : NewSaleStep(r)

\* the server runs every request handler it has started: a handler that can
\* take a step is not left waiting forever (the flush either gets the write
\* lock or gives up when SQLite's busy timeout runs out)
SpecLive ==
    Init /\ [][NextLive]_vars /\ \A r \in Reqs : WF_vars(NewSaleStep(r))

(* ----------------- purchase orders: new_purchase_order ---------------- *)

\* the purchase order requests in progress
InFlightPO == {r \in Reqs : pc[r] \in {"po_flush", "po_loop"}}

\* po_number = f"PO-{po_count:04d}": the prefix and the decimal digits of
\* po_count, at least four of them (the first entry holds what is above 999)
PONumber(po_count) ==
    <<"PO-", po_count \div 1000, (po_count \div 100) % 10,
      (po_count \div 10) % 10, po_count % 10>>

\* the session of a purchase order request before its flush
POSession(po_count, user_id) ==
    [po_id |-> 0, po_number |-> PONumber(po_count), user_id |-> user_id,
     i |-> 0, total |-> 0, pending |-> <<>>]

\* the PurchaseOrder row: status takes the column default
PORowZeroTotal(s) ==
    [id |-> s.po_id, po_number |-> s.po_number, user_id |-> s.user_id,
     total_amount |-> 0, status |-> "pending"]
PORow(s) ==
    [id |-> s.po_id, po_number |-> s.po_number, user_id |-> s.user_id,
     total_amount |-> s.total, status |-> "pending"]

\* the PurchaseOrderItem row of one form line
POItemRow(po_id, line) ==
    [purchase_order_id |-> po_id, product_id |-> line[1], quantity |-> line[2],
     unit_price |-> line[3], total_price |-> line[3] * line[2]]

\* the UNIQUE constraint on po_number refuses the INSERT
DuplicatePONumber(po_number) ==
    \E k \in 1..Len(purchase_orders) : purchase_orders[k].po_number = po_number

\* new_purchase_order POST of user user_id arrives: po_count is read with
\* PurchaseOrder.query.count() and the PurchaseOrder object is built
NewPOSubmitAs(r, user_id) ==
    /\ pc[r] = "idle"
    /\ Len(purchase_orders) + Cardinality(InFlightPO) < MaxPOs
    /\ pc' = [pc EXCEPT ![r] = "po_flush"]
    /\ result' = [result EXCEPT ![r] = "none"]
    /\ sess' = [sess EXCEPT ![r] = POSession(Len(purchase_orders) + 1, user_id)]
    /\ UNCHANGED <<products, sales, items, lock, form, createdStock, formOf, atSubmit>>
    /\ UNCHANGED otherTables

\* new_purchase_order POST of the logged-in admin
NewPOSubmit(r) == NewPOSubmitAs(r, 1)

\* db.session.flush(): the INSERT of the purchase order takes the write lock
\* and gives the order its id
NewPOFlushUpTo(r, forms, maxItems) ==
    \E f \in forms :
        /\ pc[r] = "po_flush"
        /\ lock = 0
        /\ ~DuplicatePONumber(sess[r].po_number)
        /\ Len(po_items) + Len(f) <= maxItems
        /\ lock' = FlushLock(r)
        /\ pc' = [pc EXCEPT ![r] = "po_loop"]
        /\ form' = [form EXCEPT ![r] = f]
        /\ sess' = [sess EXCEPT ![r] =
                      [sess[r] EXCEPT !.po_id = Len(purchase_orders) + 1, !.i = 1]]
        /\ UNCHANGED <<products, sales, items, result, createdStock, formOf, atSubmit>>
        /\ UNCHANGED otherTables

NewPOFlushOf(r, forms) == NewPOFlushUpTo(r, forms, MaxPOItems)

NewPOFlush(r) == NewPOFlushOf(r, POForms)

\* db.session.flush(): a committed order already has this po_number, the
\* INSERT raises IntegrityError and the request ends with nothing written
NewPOFlushDuplicate(r) ==
    /\ pc[r] = "po_flush"
    /\ lock = 0
    /\ DuplicatePONumber(sess[r].po_number)
    /\ pc' = [pc EXCEPT ![r] = "idle"]
    /\ sess' = [sess EXCEPT ![r] = NoSession]
    /\ result' = [result EXCEPT ![r] = "IntegrityError"]
    /\ UNCHANGED <<products, sales, items, lock, form, createdStock, formOf, atSubmit>>
    /\ UNCHANGED otherTables

\* db.session.flush() while another transaction holds the write lock: the
\* busy timeout runs out and the request ends with "database is locked"
NewPOBusy(r) ==
    /\ pc[r] = "po_flush"
    /\ lock \notin {0, r}
    /\ pc' = [pc EXCEPT ![r] = "idle"]
    /\ sess' = [sess EXCEPT ![r] = NoSession]
    /\ result' = [result EXCEPT ![r] = "OperationalError"]
    /\ UNCHANGED <<products, sales, items, lock, form, createdStock, formOf, atSubmit>>
    /\ UNCHANGED otherTables

\* one pass of the item loop: the line total is added and the
\* PurchaseOrderItem joins the session; no product is read or changed
NewPOItem(r) ==
    /\ pc[r] = "po_loop"
    /\ sess[r].i <= Len(form[r])
    /\ LET row == POItemRow(sess[r].po_id, form[r][sess[r].i])
       IN sess' = [sess EXCEPT ![r] =
                     [sess[r] EXCEPT !.i = sess[r].i + 1,
                                     !.total = Accumulate(sess[r].total, row.total_price),
                                     !.pending = Append(sess[r].pending, row)]]
    /\ UNCHANGED <<products, sales, items, lock, pc, form, result,
                   createdStock, formOf, atSubmit>>
    /\ UNCHANGED otherTables

\* po.total_amount = total and db.session.commit()
NewPOCommit(r) ==
    /\ pc[r] = "po_loop"
    /\ sess[r].i > Len(form[r])
    /\ purchase_orders' = Append(purchase_orders, PORow(sess[r]))
    /\ po_items' = po_items \o sess[r].pending
    /\ lock' = 0
    /\ pc' = [pc EXCEPT ![r] = "idle"]
    /\ form' = [form EXCEPT ![r] = <<>>]
    /\ sess' = [sess EXCEPT ![r] = NoSession]
    /\ result' = [result EXCEPT ![r] = "ok"]
    /\ UNCHANGED <<products, sales, items, users, createdStock, formOf, atSubmit>>
    /\ UNCHANGED <<supplier_id, seedTables, mainTables>>

\* the item loop reaches a line whose quantity or unit_price field is not a
\* number: int() / float() raises ValueError, the request ends with the
\* exception and its transaction is rolled back
NewPOItemInvalid(r) ==
    /\ pc[r] = "po_loop"
    /\ sess[r].i <= Len(form[r])
    /\ lock' = 0
    /\ pc' = [pc EXCEPT ![r] = "idle"]
    /\ form' = [form EXCEPT ![r] = <<>>]
    /\ sess' = [sess EXCEPT ![r] = NoSession]
    /\ result' = [result EXCEPT ![r] = "ValueError"]
    /\ UNCHANGED <<products, sales, items, createdStock, formOf, atSubmit>>
    /\ UNCHANGED otherTables

(* ----------- two clients of new_purchase_order, add_product ----------- *)

\* the forms of up to MaxPOLines lines
POFormsOfTwo == UNION {[1..n -> POLines] : n \in 0..MaxPOLines}

NextPO ==
    \/ AddProductUpTo(OpsProducts)
    \/ \E r \in Reqs : NewPOSubmit(r)
    \/ \E r \in Reqs : NewPOFlushUpTo(r, POFormsOfTwo, MaxPOs * MaxPOLines)
    \/ \E r \in Reqs : NewPOFlushDuplicate(r)
    \/ \E r \in Reqs : NewPOBusy(r)
    \/ \E r \in Reqs : NewPOItem(r)
    \/ \E r \in Reqs : NewPOItemInvalid(r)
    \/ \E r \in Reqs : NewPOCommit(r)

SpecPO == Init /\ [][NextPO]_vars

(* ------------------- seeding: run.py init_database -------------------- *)

\* the users init_database adds when no user has their username
SampleUsers ==
    <<[username |-> "admin", role |-> "admin"],
      [username |-> "staff", role |-> "staff"],
      [username |-> "cashier", role |-> "cashier"]>>

\* the sample customers get the ids 1..SampleCustomers
SampleCustomers == 3

\* price and stock_quantity of products_data
SampleProducts ==
    <<[price |-> 8500, stock_quantity |-> 15],
      [price |-> 2500, stock_quantity |-> 8],
      [price |-> 1200, stock_quantity |-> 25],
      [price |-> 6500, stock_quantity |-> 3],
      [price |-> 7000, stock_quantity |-> 12]>>

\* quantity = random.randint(1, 3)
SeedQuantities == 1..3

\* the user table after the three "if not User.query.filter_by(...)" blocks
UsersSeeded(us) ==
    us \o SelectSeq(SampleUsers,
                    LAMBDA u : \A k \in 1..Len(us) : us[k].username # u.username)

\* the product table after "if not Product.query.first()"
ProductsSeededEveryRun(ps) == ps \o SampleProducts
ProductsSeeded(ps) == IF ps = <<>> THEN SampleProducts ELSE ps

\* name of suppliers_data
SampleSuppliers ==
    <<"Glass Pro Philippines", "Metro Aluminum Supply", "Auto Parts Central">>

\* name of customers_data
SampleCustomerNames == <<"John Doe", "Jane Smith", "Mike Johnson">>

\* the supplier table after "if not Supplier.query.first()"
SuppliersSeeded(sup) == IF sup = <<>> THEN SampleSuppliers ELSE sup

\* the customer table after "if not Customer.query.first()"
CustomersSeeded(cus) == IF cus = <<>> THEN SampleCustomerNames ELSE cus

\* supplier_id of products_data: suppliers[0], [2], [1], [0], [0] of
\* Supplier.query.all(), which autoflush makes see the suppliers just added
SampleSupplierIds(sup) ==
    IF sup = <<>> THEN [p \in 1..Len(SampleProducts) |-> NoSupplier]
    ELSE <<1, 3, 2, 1, 1>>

\* the random header of a sample sale: customer None or a sample customer, any
\* user, cash or credit
SeedHeaders(us) ==
    [user_id : 1..Len(us), customer_id : 0..SampleCustomers,
     payment_method : {"cash", "credit"}]

\* the random lines of a sample sale: each a product row and a quantity
SeedForms(ps) ==
    UNION {[1..n -> (1..Len(ps)) \X SeedQuantities] : n \in 1..SeedLines}

\* the SaleItem rows of the sample sale sid with lines f: unit_price is
\* product.price, the stock of the product is not touched
SeedItems(sid, f, ps) ==
    [k \in 1..Len(f) |-> SaleItemRow(sid, f[k][1], f[k][2], ps[f[k][1]].price)]

\* the SaleItem rows of the sample sales k..SeedSales, in insertion order
RECURSIVE SeedAllItems(_, _, _)
SeedAllItems(seeds, k, ps) ==
    IF k > SeedSales THEN <<>>
    ELSE SeedItems(k, seeds[k][2], ps) \o SeedAllItems(seeds, k + 1, ps)

\* init_database() has nothing to add: the three users exist and no table it
\* seeds is empty, so the run only reads
NothingToSeed ==
    /\ UsersSeeded(users) = users
    /\ suppliers # <<>>
    /\ customers # <<>>
    /\ products # <<>>
    /\ sales # <<>>

\* the value of lock while the transaction of run.py holds the write lock
ScriptLock == Cardinality(Reqs) + 1

\* python run.py with something to add: the first INSERT of init_database()
\* (the autoflush before the next query, run.py:22/31; at the latest the flush
\* of run.py:97) takes the write lock, which the script keeps until its only
\* commit; a script that finds the lock taken gives up with nothing written
InitDatabaseBegin ==
    /\ lock = 0
    /\ ~NothingToSeed
    /\ lock' = ScriptLock
    /\ UNCHANGED <<products, sales, items, pc, form, sess, result,
                   createdStock, formOf, atSubmit>>
    /\ UNCHANGED otherTables

\* python run.py: the rest of init_database() up to db.session.commit(), which
\* writes the rows of every block and releases the lock; every block is
\* skipped when its table already has a row, and a run with nothing to add
\* takes no lock
InitDatabaseTables ==
    /\ NothingToSeed \/ lock = ScriptLock
    /\ lock' = IF lock = ScriptLock THEN 0 ELSE lock
    /\ suppliers' = SuppliersSeeded(suppliers)
    /\ customers' = CustomersSeeded(customers)
    /\ supplier_id' =
          IF products = <<>> THEN SampleSupplierIds(SuppliersSeeded(suppliers))
          ELSE supplier_id
    /\ users' = UsersSeeded(users)
    /\ products' = ProductsSeeded(products)
    /\ createdStock' =
          IF products = <<>>
          THEN [p \in 1..Len(SampleProducts) |-> SampleProducts[p].stock_quantity]
          ELSE createdStock
    /\ IF sales = <<>>
       THEN \E seeds \in [1..SeedSales ->
                            SeedHeaders(UsersSeeded(users))
                            \X SeedForms(ProductsSeeded(products))] :
               /\ sales' = [k \in 1..SeedSales |->
                               SaleRow(k,
                                       SumTotalPrice(SeedItems(k, seeds[k][2],
                                                               ProductsSeeded(products))),
                                       seeds[k][1])]
               /\ items' = items \o SeedAllItems(seeds, 1, ProductsSeeded(products))
               /\ formOf' = [k \in 1..SeedSales |-> seeds[k][2]]
       ELSE UNCHANGED <<sales, items, formOf>>
    /\ UNCHANGED <<pc, form, sess, result, atSubmit, purchase_orders, po_items>>
    /\ UNCHANGED mainTables

\* init_database() beside the requests of the application
InitDatabase == InitDatabaseTables /\ UNCHANGED runs

(* ------------------- seeding: main.py init_database ------------------- *)

\* the user table after "if not db.query(User).filter(User.username ==
\* "admin").first()"
MainUsersSeeded(us) ==
    IF \E k \in 1..Len(us) : us[k].username = "admin" THEN us
    ELSE Append(us, [username |-> "admin", role |-> "admin"])

\* price and stock_quantity of main.py's products_data
MainSampleProducts ==
    <<[price |-> 8500, stock_quantity |-> 15],
      [price |-> 2500, stock_quantity |-> 8],
      [price |-> 1200, stock_quantity |-> 25],
      [price |-> 6500, stock_quantity |-> 3]>>

\* a row of main.py's table products
MainProductRow(price, stock_quantity, sid) ==
    [price |-> price, stock_quantity |-> stock_quantity, supplier_id |-> sid]

\* supplier_id of the sample products: "if suppliers:
\* suppliers[i % len(suppliers)].id" over the rows db.query(Supplier).all()
\* returned, None where it returned none
MainSupplierIds(sup) ==
    [p \in 1..Len(MainSampleProducts) |->
        IF sup = <<>> THEN NoSupplier ELSE ((p - 1) % Len(sup)) + 1]

\* python main.py: init_database() in one transaction of a SessionLocal()
\* session over main.py's own tables users, suppliers and products.  The
\* session is made with autoflush=False, so the suppliers added by db.add()
\* are still pending when db.query(Supplier).all() runs: the query returns the
\* committed rows
MainInitDatabaseTables ==
    /\ lock = 0
    /\ main_users' = MainUsersSeeded(main_users)
    /\ main_suppliers' = SuppliersSeeded(main_suppliers)
    /\ main_products' =
          IF main_products = <<>>
          THEN [p \in 1..Len(MainSampleProducts) |->
                  MainProductRow(MainSampleProducts[p].price,
                                 MainSampleProducts[p].stock_quantity,
                                 MainSupplierIds(main_suppliers)[p])]
          ELSE main_products
    /\ UNCHANGED <<products, sales, items, lock, pc, form, sess, result,
                   createdStock, formOf, atSubmit>>
    /\ UNCHANGED <<users, purchase_orders, po_items, supplier_id, suppliers, customers>>

\* init_database() of main.py beside the requests of the applications
MainInitDatabase == MainInitDatabaseTables /\ UNCHANGED runs

(* --------------------- the seeding scripts, re-run -------------------- *)

\* one more run of script s
Ran(s) == runs' = [runs EXCEPT ![s] = runs[s] + 1]

\* python run.py
RunPyBegin == runs["run.py"] < MaxRuns /\ InitDatabaseBegin

\* python run.py reaches its commit
RunPy == runs["run.py"] < MaxRuns /\ InitDatabaseTables /\ Ran("run.py")

\* python main.py
RunMain == runs["main.py"] < MaxRuns /\ MainInitDatabaseTables /\ Ran("main.py")

NextSeed ==
    \/ RunPyBegin
    \/ RunPy
    \/ RunMain
    \/ AddProductUpTo(OpsProducts)

\* both seeding scripts, each run up to MaxRuns times, and add_product over
\* one database
SpecSeed == Init /\ [][NextSeed]_vars

\* the requests that record sales and the requests that create purchase
\* orders when all operations run together
SaleClients == {1}
POClients == {2}

NextOps ==
    \/ AddProductUpTo(OpsProducts)
    \/ \E r \in SaleClients : NewSaleSubmit(r)
    \/ \E r \in SaleClients : NewSaleFlush(r)
    \/ \E r \in SaleClients : NewSaleBusy(r)
    \/ \E r \in SaleClients : NewSaleItem(r)
    \/ \E r \in SaleClients : NewSaleItemMissing(r)
    \/ \E r \in SaleClients : NewSaleCommit(r)
    \/ \E r \in POClients : NewPOSubmit(r)
    \/ \E r \in POClients : NewPOFlush(r)
    \/ \E r \in POClients : NewPOBusy(r)
    \/ \E r \in POClients : NewPOItem(r)
    \/ \E r \in POClients : NewPOCommit(r)
    \/ InitDatabaseBegin
    \/ InitDatabase

\* every state-changing operation of app.py and run.py over one database
SpecOps == Init /\ [][NextOps]_vars

(* --------- requests with their session cookie or token (both apps) ----- *)

\* the state-changing routes a client may ask for, and the two implementations
Ops == {"add_product", "new_sale", "new_purchase_order"}
Apps == {"app.py", "main.py"}

\* what the session cookie (app.py) or the access token (main.py) of a request
\* names: 0 when the request carries none or an invalid one; for app.py the
\* user id c, for main.py the username of sample user c ("sub" of the token)
Credentials == 0..2

\* payload.get("sub") of the token of credential c
TokenSub(c) == SampleUsers[c].username

\* the payment_method values a client may post
PaymentInputs == {"cash", "credit", "gcash"}

\* the forms the clients post here: nothing, or one unit of product 1 (bought
\* at price 1 in a purchase order)
AuthForms == {<<>>, <<<<1, 1>>>>}
AuthPOForms == {<<>>, <<<<1, 1, 1>>>>}

\* Flask-Login current_user: load_user fetches User.query.get(id), an id with
\* no row gives the anonymous user (0)
current_user(c) == IF c \in 1..Len(users) THEN c ELSE 0

\* @login_required lets the handler run
login_required(c) == current_user(c) # 0

\* main.py get_current_user: None (0) without a token, with a token that does
\* not decode, or when no row of main.py's table users has the token's
\* username
get_current_user(c) ==
    IF c = 0 THEN 0
    ELSE IF \E k \in 1..Len(main_users) : main_users[k].username = TokenSub(c)
         THEN CHOOSE k \in 1..Len(main_users) : main_users[k].username = TokenSub(c)
         ELSE 0

\* the routes each implementation has for the state-changing operations
Routes(app) ==
    IF app = "app.py" THEN Ops ELSE {"add_product"}

\* a request for operation op arrives at implementation app with credential c
Arrive(r) ==
    \E c \in Credentials, op \in Ops, app \in Apps :
        /\ pc[r] = "idle"
        /\ (op = "add_product" /\ app = "app.py") => Len(products) < OpsProducts
        /\ (op = "add_product" /\ app = "main.py")
              => Len(main_products) < Len(MainSampleProducts) + OpsProducts
        /\ op = "new_sale" => Len(sales) + Cardinality(InFlight) < MaxSales
        /\ op = "new_purchase_order"
              => Len(purchase_orders) + Cardinality(InFlightPO) < MaxPOs
        /\ pc' = [pc EXCEPT ![r] = "auth"]
        /\ sess' = [sess EXCEPT ![r] = [cred |-> c, op |-> op, app |-> app]]
        /\ result' = [result EXCEPT ![r] = "none"]
        /\ UNCHANGED <<products, sales, items, lock, form, createdStock, formOf, atSubmit>>
        /\ UNCHANGED otherTables

\* the request ends with the given response and nothing written
Respond(r, response) ==
    /\ pc' = [pc EXCEPT ![r] = "idle"]
    /\ sess' = [sess EXCEPT ![r] = NoSession]
    /\ result' = [result EXCEPT ![r] = response]
    /\ UNCHANGED <<products, sales, items, lock, form, createdStock, formOf, atSubmit>>
    /\ UNCHANGED otherTables

\* app.py: @login_required sends an anonymous caller to login_view
FlaskLoginRedirect(r) ==
    /\ pc[r] = "auth"
    /\ ~login_required(sess[r].cred)
    /\ Respond(r, "login")

\* the product row add_product INSERTs and commits for request r
InsertProduct(r, price, stock_quantity) ==
    /\ lock = 0
    /\ products' = Append(products, [price |-> price, stock_quantity |-> stock_quantity])
    /\ createdStock' = Append(createdStock, stock_quantity)
    /\ supplier_id' = Append(supplier_id, NoSupplier)
    /\ pc' = [pc EXCEPT ![r] = "idle"]
    /\ sess' = [sess EXCEPT ![r] = NoSession]
    /\ result' = [result EXCEPT ![r] = "inventory"]
    /\ UNCHANGED <<sales, items, lock, form, formOf, atSubmit>>
    /\ UNCHANGED <<users, purchase_orders, po_items, seedTables, mainTables>>

\* app.py add_product for a logged-in caller
FlaskAddProduct(r) ==
    \E price \in Prices, stock_quantity \in StockInputs :
        /\ pc[r] = "auth"
        /\ sess[r].op = "add_product"
        /\ login_required(sess[r].cred)
        /\ InsertProduct(r, price, stock_quantity)

\* app.py new_sale for a logged-in caller: the Sale object is built from
\* current_user.id and the posted payment_method
FlaskNewSale(r) ==
    \E payment_method \in PaymentInputs :
        /\ pc[r] = "auth"
        /\ sess[r].op = "new_sale"
        /\ login_required(sess[r].cred)
        /\ pc' = [pc EXCEPT ![r] = "flush"]
        /\ sess' = [sess EXCEPT ![r] =
                      [NoSession EXCEPT !.header =
                          [user_id |-> current_user(sess[r].cred), customer_id |-> 0,
                           payment_method |-> payment_method]]]
        /\ atSubmit' = [atSubmit EXCEPT ![r] =
                          [stock |-> CommittedStock, nitems |-> Len(items)]]
        /\ UNCHANGED <<products, sales, items, lock, form, result, createdStock, formOf>>
        /\ UNCHANGED otherTables

\* app.py new_purchase_order for a logged-in caller
FlaskNewPO(r) ==
    /\ pc[r] = "auth"
    /\ sess[r].op = "new_purchase_order"
    /\ login_required(sess[r].cred)
    /\ pc' = [pc EXCEPT ![r] = "po_flush"]
    /\ sess' = [sess EXCEPT ![r] =
                  POSession(Len(purchase_orders) + 1, current_user(sess[r].cred))]
    /\ UNCHANGED <<products, sales, items, lock, form, result, createdStock,
                   formOf, atSubmit>>
    /\ UNCHANGED otherTables

\* what app.py does with the request of r once it has arrived
FlaskHandles(r) ==
    \/ FlaskLoginRedirect(r)
    \/ FlaskAddProduct(r)
    \/ FlaskNewSale(r)
    \/ FlaskNewPO(r)

\* main.py add_product without a user: RedirectResponse("/login")
MainLoginRedirect(r) ==
    /\ pc[r] = "auth"
    /\ sess[r].op \in Routes("main.py")
    /\ get_current_user(sess[r].cred) = 0
    /\ Respond(r, "login")

\* main.py add_product for a caller whose token names a user: one INSERT
\* into main.py's table products and COMMIT
MainAddProduct(r) ==
    \E price \in Prices, stock_quantity \in StockInputs :
        /\ pc[r] = "auth"
        /\ sess[r].op = "add_product"
        /\ get_current_user(sess[r].cred) # 0
        /\ lock = 0
        /\ main_products' = Append(main_products,
                                   MainProductRow(price, stock_quantity, NoSupplier))
        /\ pc' = [pc EXCEPT ![r] = "idle"]
        /\ sess' = [sess EXCEPT ![r] = NoSession]
        /\ result' = [result EXCEPT ![r] = "inventory"]
        /\ UNCHANGED <<products, sales, items, lock, form, createdStock, formOf, atSubmit>>
        /\ UNCHANGED <<users, purchase_orders, po_items, supplier_id, seedTables>>
        /\ UNCHANGED <<main_users, main_suppliers>>

\* main.py has no route for the operation: the framework answers 404
MainNotFound(r) ==
    /\ pc[r] = "auth"
    /\ sess[r].op \notin Routes("main.py")
    /\ Respond(r, "404")

AuthClients == {1}

NextAuth ==
    \/ MainInitDatabase
    \/ \E r \in AuthClients : Arrive(r)
    \/ \E r \in AuthClients : pc[r] = "auth" /\ sess[r].app = "app.py" /\ FlaskLoginRedirect(r)
    \/ \E r \in AuthClients : pc[r] = "auth" /\ sess[r].app = "app.py" /\ FlaskAddProduct(r)
    \/ \E r \in AuthClients : pc[r] = "auth" /\ sess[r].app = "app.py" /\ FlaskNewSale(r)
    \/ \E r \in AuthClients : pc[r] = "auth" /\ sess[r].app = "app.py" /\ FlaskNewPO(r)
    \/ \E r \in AuthClients : pc[r] = "auth" /\ sess[r].app = "main.py" /\ MainLoginRedirect(r)
    \/ \E r \in AuthClients : pc[r] = "auth" /\ sess[r].app = "main.py" /\ MainAddProduct(r)
    \/ \E r \in AuthClients : pc[r] = "auth" /\ sess[r].app = "main.py" /\ MainNotFound(r)
    \/ \E r \in AuthClients : NewSaleFlushOf(r, AuthForms)
    \/ \E r \in AuthClients : NewSaleItem(r)
    \/ \E r \in AuthClients : NewSaleItemMissing(r)
    \/ \E r \in AuthClients : NewSaleCommit(r)
    \/ \E r \in AuthClients : NewPOFlushOf(r, AuthPOForms)
    \/ \E r \in AuthClients : NewPOItem(r)
    \/ \E r \in AuthClients : NewPOCommit(r)

\* one client sending requests, with any credential, to either implementation
\* over the one SQLite file, in which each keeps its own tables
SpecAuth == Init /\ [][NextAuth]_vars

(* -------------------- the admin-only routes (both apps) --------------- *)

\* the routes app.py guards with @role_required('admin'), and the one of
\* them main.py has
AdminOps == {"reports", "export_sales_report", "export_inventory_report", "users"}
AdminRoutes(app) == IF app = "app.py" THEN AdminOps ELSE {"reports"}

\* role_required(role) lets the handler run: the caller is authenticated and
\* has the role
RoleNotRequired(c, role) == TRUE
role_required(c, role) ==
    /\ current_user(c) # 0
    /\ users[current_user(c)].role = role

\* main.py reports: "not user or user.role != 'admin'" is false
MainIsAdmin(c) ==
    /\ get_current_user(c) # 0
    /\ main_users[get_current_user(c)].role = "admin"

\* a GET for an admin-only route arrives at implementation app with
\* credential c
ArriveAdminRoute(r) ==
    \E c \in Credentials, app \in Apps :
        \E op \in AdminRoutes(app) :
            /\ pc[r] = "idle"
            /\ pc' = [pc EXCEPT ![r] = "auth"]
            /\ sess' = [sess EXCEPT ![r] = [cred |-> c, op |-> op, app |-> app]]
            /\ result' = [result EXCEPT ![r] = "none"]
            /\ UNCHANGED <<products, sales, items, lock, form, createdStock,
                           formOf, atSubmit>>
            /\ UNCHANGED otherTables

\* app.py: the caller is logged in and is no admin: role_required flashes
\* 'Access denied' and redirects to the dashboard
FlaskRoleRedirect(r) ==
    /\ pc[r] = "auth"
    /\ sess[r].op \in AdminOps
    /\ login_required(sess[r].cred)
    /\ ~role_required(sess[r].cred, "admin")
    /\ Respond(r, "access denied: dashboard")

\* app.py: the body of reports, export_sales_report, export_inventory_report
\* or users runs and answers with the data it queried.  The sales export
\* gets this far only while the sale table is empty (its generators read
\* sale.customer for every sale)
FlaskAdminBody(r) ==
    /\ pc[r] = "auth"
    /\ sess[r].op \in AdminOps
    /\ login_required(sess[r].cred)
    /\ role_required(sess[r].cred, "admin")
    /\ sess[r].op = "export_sales_report" => sales = <<>>
    /\ Respond(r, "report data")

\* app.py export_sales_report for an admin once a sale is committed:
\* generate_sales_pdf / generate_sales_excel evaluate sale.customer, Sale has
\* no such attribute (no relationship to Customer is declared), the request
\* ends with an unhandled AttributeError
FlaskExportSalesFails(r) ==
    /\ pc[r] = "auth"
    /\ sess[r].op = "export_sales_report"
    /\ login_required(sess[r].cred)
    /\ role_required(sess[r].cred, "admin")
    /\ sales # <<>>
    /\ Respond(r, "AttributeError")

\* app.py reports for an admin while a product has a negative stock value:
\* generate_inventory_chart hands the value of each category to plt.pie,
\* which raises ValueError for a negative wedge.  Categories are not
\* modelled: the product's category has a negative total here, and a
\* non-negative one where FlaskAdminBody answers in the same state
FlaskReportsChartFails(r) ==
    /\ pc[r] = "auth"
    /\ sess[r].op = "reports"
    /\ login_required(sess[r].cred)
    /\ role_required(sess[r].cred, "admin")
    /\ \E p \in ProductRows : products[p].stock_quantity * products[p].price < 0
    /\ Respond(r, "ValueError")

\* main.py reports for a caller without a user or with another role
MainRoleRedirect(r) ==
    /\ pc[r] = "auth"
    /\ sess[r].op \in AdminRoutes("main.py")
    /\ ~MainIsAdmin(sess[r].cred)
    /\ Respond(r, "dashboard")

\* main.py reports for an admin: the statistics are queried and rendered
MainAdminBody(r) ==
    /\ pc[r] = "auth"
    /\ sess[r].op \in AdminRoutes("main.py")
    /\ MainIsAdmin(sess[r].cred)
    /\ Respond(r, "report data")

NextReports ==
    \/ AddProductUpTo(OpsProducts)
    \/ InitDatabaseBegin
    \/ InitDatabase
    \/ MainInitDatabase
    \/ \E r \in AuthClients : ArriveAdminRoute(r)
    \/ \E r \in AuthClients : pc[r] = "auth" /\ sess[r].app = "app.py" /\ FlaskLoginRedirect(r)
    \/ \E r \in AuthClients : pc[r] = "auth" /\ sess[r].app = "app.py" /\ FlaskRoleRedirect(r)
    \/ \E r \in AuthClients : pc[r] = "auth" /\ sess[r].app = "app.py" /\ FlaskAdminBody(r)
    \/ \E r \in AuthClients : pc[r] = "auth" /\ sess[r].app = "app.py" /\ FlaskExportSalesFails(r)
    \/ \E r \in AuthClients : pc[r] = "auth" /\ sess[r].app = "app.py" /\ FlaskReportsChartFails(r)
    \/ \E r \in AuthClients : pc[r] = "auth" /\ sess[r].app = "main.py" /\ MainRoleRedirect(r)
    \/ \E r \in AuthClients : pc[r] = "auth" /\ sess[r].app = "main.py" /\ MainAdminBody(r)

\* one client asking either implementation for the admin-only pages, before
\* and after the seeding has created the staff and cashier users
SpecReports == Init /\ [][NextReports]_vars

(* ------------------------- steps named by claims ---------------------- *)

\* request r leaves the item loop in this step: by COMMIT or by an exception
Finishes(r) == pc[r] = "loop" /\ pc'[r] = "idle"

\* request r commits its sale in this step
Commits(r) == Finishes(r) /\ result'[r] = "ok"

\* the committed tables are the same after the step
DatabaseUnchanged == products' = products /\ sales' = sales /\ items' = items

\* every product id of the form names a row
AllProductsExist(f) == \A k \in 1..Len(f) : ~ProductMissing(f[k][1])

(* ------------------------------- claims ------------------------------- *)

\* C1: every committed sale's total_amount is the sum of total_price over
\* exactly the committed sale items whose sale_id is that sale.
C1_TotalIsSumOfItems ==
    \A k \in 1..Len(sales) :
        sales[k].total_amount = SumTotalPrice(ItemsOf(sales[k].id))

\* C1 witness: a committed sale with two lines for the same product and a
\* total that is not zero.
C1_Witness ==
    \E k \in 1..Len(sales) :
        /\ Len(ItemsOf(sales[k].id)) = 2
        /\ ItemsOf(sales[k].id)[1].product_id = ItemsOf(sales[k].id)[2].product_id
        /\ ItemsOf(sales[k].id)[1].total_price > 0
        /\ ItemsOf(sales[k].id)[2].total_price > 0

\* C2: when a sale commits, every product's committed stock becomes its stock
\* before the commit minus the total quantity the form requests for it (zero
\* for a product the form does not name); and while the sale is in its loop
\* the committed stock is the stock it started from.
C2_StockDecreasesByRequested ==
    [][\A r \in Reqs :
          /\ Commits(r) =>
                /\ Len(products') = Len(products)
                /\ \A p \in ProductRows :
                      products'[p].stock_quantity = products[p].stock_quantity - FormQuantity(form[r], p)
          /\ (pc[r] = "loop" /\ pc'[r] = "loop") => products' = products]_vars

\* C2 witness: a committed sale whose form names one product on two lines with
\* quantities that do not cancel, while a second product exists.
C2_Witness ==
    /\ Len(products) = 2
    /\ \E k \in 1..Len(formOf) :
          /\ Len(formOf[k]) = 2
          /\ formOf[k][1][1] = formOf[k][2][1]
          /\ formOf[k][1][2] > 0
          /\ formOf[k][2][2] > 0

\* C3 (as claimed): in every committed state every product's stock_quantity
\* is >= 0.
C3_StockNeverNegative ==
    \A p \in ProductRows : products[p].stock_quantity >= 0

\* C4 (as claimed): a sale of existing products, in positive quantities, in
\* which some line asks for more than the product's committed stock (itself
\* >= 0) ends with InsufficientStockError and leaves the committed tables
\* unchanged.
C4_OversellRejected ==
    [][\A r \in Reqs :
          (/\ Finishes(r)
           /\ AllProductsExist(form[r])
           /\ \A k \in 1..Len(form[r]) : form[r][k][2] > 0
           /\ \A p \in ProductRows : products[p].stock_quantity >= 0
           /\ \E k \in 1..Len(form[r]) : form[r][k][2] > products[form[r][k][1]].stock_quantity)
          => (result'[r] = "InsufficientStockError" /\ DatabaseUnchanged)]_vars

\* C5 (as claimed): a sale that ran concurrently with another sale (the other
\* committed items after this one was submitted) commits only if it still fits:
\* a stock that was >= 0 when the request was submitted is >= 0 after its commit.
C5_NoOverselling ==
    [][\A r \in Reqs :
          (Commits(r) /\ atSubmit[r].nitems < Len(items))
          => \A p \in DOMAIN atSubmit[r].stock :
                atSubmit[r].stock[p] >= 0 => products'[p].stock_quantity >= 0]_vars

\* C6: no decrement is lost between concurrent sales: when a sale commits,
\* every product's stock is its stock at the time the request was submitted
\* minus the quantities of all sale items committed since then, those of the
\* sales that committed in between and its own.
C6_NoLostUpdate ==
    [][\A r \in Reqs :
          Commits(r) =>
             \A p \in DOMAIN atSubmit[r].stock :
                products'[p].stock_quantity =
                   atSubmit[r].stock[p]
                   - SumQuantity(SubSeq(items', atSubmit[r].nitems + 1, Len(items')), p)]_vars

\* C6 witness: a sale of a product has committed after request r was submitted,
\* and r, inside its own transaction, has read that product's stock and
\* decremented it: the stock r is about to commit is the stock at its
\* submission minus both quantities.
C6_Witness ==
    \E r \in Reqs :
        /\ pc[r] = "loop"
        /\ Len(form[r]) = 1
        /\ sess[r].i = 2
        /\ atSubmit[r].nitems = 0
        /\ Len(items) = 1
        /\ items[1].product_id = form[r][1][1]
        /\ items[1].quantity > 0
        /\ form[r][1][2] > 0
        /\ sess[r].stock[form[r][1][1]] >= 0
        /\ sess[r].stock[form[r][1][1]] =
              atSubmit[r].stock[form[r][1][1]] - items[1].quantity - form[r][1][2]

\* C7: in every state, the committed tables hold a sale together with all the
\* lines of its form and all its stock decrements, or nothing of it: each
\* committed sale has one item per line of its form, every committed item
\* belongs to a committed sale, and every product's stock is the stock it was
\* created with minus the quantities of the committed items that name it.
C7_AllVisibleTogether ==
    /\ Len(formOf) = Len(sales)
    /\ \A k \in 1..Len(sales) :
          /\ sales[k].id = k
          /\ Len(ItemsOf(k)) = Len(formOf[k])
          /\ \A j \in 1..Len(formOf[k]) :
                /\ ItemsOf(k)[j].product_id = formOf[k][j][1]
                /\ ItemsOf(k)[j].quantity = formOf[k][j][2]
    /\ \A j \in 1..Len(items) : items[j].sale_id \in 1..Len(sales)
    /\ \A p \in ProductRows :
          products[p].stock_quantity = createdStock[p] - SumQuantity(items, p)

\* C7 witness: a request is inside its transaction after the sale row was
\* flushed, a line was added and the session's stock was changed, before COMMIT.
C7_Witness ==
    \E r \in Reqs :
        /\ pc[r] = "loop"
        /\ Len(sess[r].pending) = 1
        /\ Len(form[r]) = 2
        /\ sess[r].pending[1].quantity > 0
        /\ sess[r].stock[sess[r].pending[1].product_id]
              # products[sess[r].pending[1].product_id].stock_quantity

\* C8 (as claimed): a sale whose form has no lines ends with ValidationError
\* and leaves the committed tables unchanged.
C8_EmptySaleRejected ==
    [][\A r \in Reqs :
          (Finishes(r) /\ form[r] = <<>>)
          => (result'[r] = "ValidationError" /\ DatabaseUnchanged)]_vars

\* C9 (as claimed): a sale with a line of quantity <= 0 ends with
\* ValidationError and changes nothing; every committed sale item has
\* quantity > 0 and no committing sale raises a product's stock.
C9_NonPositiveQuantityRejected ==
    [][/\ \A r \in Reqs :
            (/\ Finishes(r)
             /\ AllProductsExist(form[r])
             /\ \E k \in 1..Len(form[r]) : form[r][k][2] <= 0)
            => (result'[r] = "ValidationError" /\ DatabaseUnchanged)
       /\ \A j \in 1..Len(items') : items'[j].quantity > 0
       /\ \A r \in Reqs :
            Commits(r) => \A p \in ProductRows : products'[p].stock_quantity <= products[p].stock_quantity]_vars

\* C10 (as claimed): a sale naming a product id with no row ends as a typed
\* validation failure and leaves the committed tables unchanged.
C10_UnknownProductRejected ==
    [][\A r \in Reqs :
          (Finishes(r) /\ ~AllProductsExist(form[r]))
          => (result'[r] = "ValidationError" /\ DatabaseUnchanged)]_vars

\* The part of C10 the code does provide: such a request never commits and
\* leaves the committed tables unchanged, also when valid lines precede the
\* unknown id.
UnknownProductLeavesDatabase ==
    [][\A r \in Reqs :
          (Finishes(r) /\ ~AllProductsExist(form[r]))
          => (result'[r] = "AttributeError" /\ DatabaseUnchanged)]_vars

\* ------------------------------------------------------------------------
\* C11: every persisted SaleItem has total_price = quantity * unit_price, and
\* its unit_price is the price of the product it references as new_sale read it
\* (no operation changes the price of an existing product)
C11_LineTotalFromProductPrice ==
    \A k \in 1..Len(items) :
        /\ items[k].total_price = items[k].quantity * items[k].unit_price
        /\ items[k].product_id \in ProductRows
        /\ items[k].unit_price = products[items[k].product_id].price

\* a line of two units at price 2 is persisted with total_price 4
C11_Witness ==
    \E k \in 1..Len(items) :
        /\ items[k].quantity = 2
        /\ items[k].unit_price = 2
        /\ items[k].total_price = 4

\* ------------------------------------------------------------------------
\* the commit of request r is attempted in this step and does not succeed
CommitFails(r) ==
    /\ pc[r] = "loop"
    /\ sess[r].i > Len(form[r])
    /\ result'[r] # "ok"
    /\ <<pc[r], result[r], sess[r]>>' # <<pc[r], result[r], sess[r]>>

\* C12: when the final commit of a sale fails, no Sale, SaleItem or stock
\* change is persisted, the failure is what the request ends with, and the
\* request is over after that one attempt (its transaction and lock are gone)
C12_FailedCommitRolledBack ==
    [][\A r \in Reqs :
          CommitFails(r)
          => /\ DatabaseUnchanged
             /\ result'[r] = "SQLAlchemyError"
             /\ pc'[r] = "idle"
             /\ sess'[r] = NoSession
             /\ lock' = 0]_vars

\* a request ended with a failed commit after another sale was committed, and
\* the committed tables hold that other sale only
C12_Witness ==
    \E r \in Reqs :
        /\ result[r] = "SQLAlchemyError"
        /\ pc[r] = "idle"
        /\ lock = 0
        /\ Len(sales) = 1
        /\ Len(items) = 1
        /\ Len(formOf) = 1

\* ------------------------------------------------------------------------
\* C13: across seeding, add_product, new_sale and new_purchase_order, the
\* stock of every product is the stock it was created with minus the total
\* quantity of the persisted SaleItems that reference it
C13_StockMatchesSaleItems ==
    \A p \in ProductRows :
        products[p].stock_quantity = createdStock[p] - SumQuantity(items, p)

\* ------------------------------------------------------------------------
\* the products a sale form names
ProductsOf(f) == {f[k][1] : k \in 1..Len(f)}

\* form f names existing products only, in positive quantities the committed
\* stock covers
InStock(f) ==
    /\ f # <<>>
    /\ AllProductsExist(f)
    /\ \A k \in 1..Len(f) : f[k][2] >= 1
    /\ \A p \in ProductsOf(f) : FormQuantity(f, p) <= products[p].stock_quantity

\* C14: of two concurrent sale requests whose forms can be served from stock
\* and share no product, neither makes the other fail: whenever one of them
\* ends while the other is in progress, it ends with its sale committed
C14_DisjointSalesIndependent ==
    [][\A r \in Reqs : \A o \in Reqs \ {r} :
          ( /\ pc[r] \in {"flush", "loop"}
            /\ pc[o] \in {"flush", "loop"}
            /\ InStock(form[r]) /\ InStock(form[o])
            /\ ProductsOf(form[r]) \cap ProductsOf(form[o]) = {}
            /\ pc'[r] = "idle" )
          => result'[r] = "ok"]_vars

\* ------------------------------------------------------------------------
\* C15: under fair scheduling every sale request that was started finishes,
\* with its sale committed or with an error
C15_EverySaleFinishes ==
    \A r \in Reqs :
        (pc[r] \in {"flush", "loop"})
        ~> (pc[r] = "idle" /\ result[r] \in {"ok", "AttributeError", "OperationalError"})

\* both requests are over: one committed a sale of an existing product, the
\* other gave up waiting for the write lock
C15_Witness ==
    \E r \in Reqs : \E o \in Reqs \ {r} :
        /\ pc[r] = "idle" /\ pc[o] = "idle"
        /\ result[r] = "ok"
        /\ result[o] = "OperationalError"
        /\ Len(items) = 1

\* ------------------------------------------------------------------------
\* C16: every persisted Sale has payment_method cash or credit; a request
\* with any other payment_method leaves no Sale
C16_PaymentMethodEnumerated ==
    \A k \in 1..Len(sales) : sales[k].payment_method \in {"cash", "credit"}

\* ------------------------------------------------------------------------
\* C17: once a Sale is committed, no later operation (another sale, a new
\* product, a purchase order, a re-run of the seeding) changes its row
\* (customer, operator, total, payment method, status) or its SaleItems
C17_CommittedSaleUnchanged ==
    [][\A k \in 1..Len(sales) :
          /\ k <= Len(sales')
          /\ sales'[k] = sales[k]
          /\ SelectSeq(items', LAMBDA it : it.sale_id = sales[k].id)
               = SelectSeq(items, LAMBDA it : it.sale_id = sales[k].id)]_vars

\* a first sale with an item is followed by a second sale with an item, a
\* purchase order and a run of the seeding
C17_Witness ==
    /\ Len(sales) = 2
    /\ ItemsOf(1) # <<>>
    /\ ItemsOf(2) # <<>>
    /\ Len(purchase_orders) >= 1
    /\ Len(products) >= 1
    /\ Len(users) = 3

\* ------------------------------------------------------------------------
\* purchase order k is marked delivered in this step
Delivered(k) ==
    /\ purchase_orders[k].status # "delivered"
    /\ k <= Len(purchase_orders')
    /\ purchase_orders'[k].status = "delivered"

\* the quantity of product p that purchase order k orders
OrderedQuantity(k, p) ==
    SumQuantity(SelectSeq(po_items,
                          LAMBDA it : it.purchase_order_id = purchase_orders[k].id), p)

\* C18: the stock of an existing product changes only when a sale is
\* processed, which lowers it by the quantity sold, or when a purchase order
\* is delivered, which raises it by the quantity ordered; every other
\* operation leaves it as it is
C18_StockChangedBySaleOrReceipt ==
    [][\A p \in ProductRows :
          products'[p].stock_quantity # products[p].stock_quantity
          => \/ \E r \in Reqs :
                  /\ Commits(r)
                  /\ products'[p].stock_quantity < products[p].stock_quantity
                  /\ products'[p].stock_quantity
                       = products[p].stock_quantity - FormQuantity(form[r], p)
             \/ \E k \in 1..Len(purchase_orders) :
                  /\ Delivered(k)
                  /\ products'[p].stock_quantity
                       = products[p].stock_quantity + OrderedQuantity(k, p)]_vars

\* ------------------------------------------------------------------------
\* C19: main.py implements the business operations of app.py: whatever
\* main.py does with the request of a logged-in caller to add a product,
\* record a sale or create a purchase order, app.py does with the same
\* request in the same state, so both reach the same persisted rows
C19_SameOperationsInBoth ==
    [][\A r \in Reqs :
          ( /\ pc[r] = "auth"
            /\ sess[r].app = "main.py"
            /\ get_current_user(sess[r].cred) # 0
            /\ pc'[r] # "auth" )
          => FlaskHandles(r)]_vars

\* ------------------------------------------------------------------------
\* the request of r carries no valid session or token: its credential names
\* no user of the implementation it is sent to
Unauthenticated(r) ==
    IF sess[r].app = "main.py"
    THEN \A k \in 1..Len(main_users) :
            sess[r].cred = 0 \/ main_users[k].username # TokenSub(sess[r].cred)
    ELSE sess[r].cred \notin 1..Len(users)

\* no committed table changes in this step
TablesUnchanged ==
    /\ DatabaseUnchanged
    /\ UNCHANGED <<users, purchase_orders, po_items>>
    /\ UNCHANGED <<suppliers, customers, supplier_id>>
    /\ UNCHANGED mainTables

\* C20: no state-changing operation takes effect for an unauthenticated
\* caller: in both implementations its request to add a product, record a
\* sale or create a purchase order leaves every table unchanged and is
\* answered with the redirect to the login page; so every persisted Sale and
\* PurchaseOrder carries the id of an existing user
C20_UnauthenticatedNoEffect ==
    /\ [](/\ \A k \in 1..Len(sales) : sales[k].user_id \in 1..Len(users)
          /\ \A k \in 1..Len(purchase_orders) :
                purchase_orders[k].user_id \in 1..Len(users))
    /\ [][\A r \in Reqs :
             (pc[r] = "auth" /\ Unauthenticated(r) /\ pc'[r] # "auth")
             => /\ TablesUnchanged
                /\ pc'[r] = "idle"
                /\ result'[r] = "login"]_vars

\* ------------------------------------------------------------------------
\* the credential names a user of the implementation whose role is admin
IsAdmin(app, c) ==
    IF app = "main.py"
    THEN /\ c # 0
         /\ \E k \in 1..Len(main_users) :
               main_users[k].username = TokenSub(c) /\ main_users[k].role = "admin"
    ELSE c \in 1..Len(users) /\ users[c].role = "admin"

\* the answers that redirect the caller to the login page or the dashboard
\* (role_required flashes 'Access denied' with its redirect)
Redirects == {"login", "dashboard", "access denied: dashboard"}

\* C21: reports, the two report exports and the user list are admin-only in
\* app.py, and /reports in main.py: a caller who is not an authenticated
\* admin is redirected to the login page or the dashboard, gets no report
\* data, and nothing is written
C21_AdminOnlyReports ==
    [][\A r \in Reqs :
          ( /\ pc[r] = "auth"
            /\ sess[r].op \in AdminOps
            /\ ~IsAdmin(sess[r].app, sess[r].cred)
            /\ pc'[r] # "auth" )
          => /\ result'[r] \in Redirects
             /\ TablesUnchanged]_vars

\* the staff user exists and the last request, sent to app.py by a
\* logged-in user who is no admin, was refused by role_required
C21_Witness ==
    \E r \in Reqs :
        /\ pc[r] = "idle"
        /\ result[r] = "access denied: dashboard"
        /\ Len(users) = 3
        /\ users[2].role = "staff"

\* C22: after any sequence of purchase order creations, concurrent ones
\* included, the persisted orders carry pairwise distinct po_numbers, and no
\* creation fails because it computed the po_number another creation also
\* computed
C22_DistinctPONumbers ==
    /\ \A j, k \in 1..Len(purchase_orders) :
          j # k => purchase_orders[j].po_number # purchase_orders[k].po_number
    /\ \A r \in Reqs : result[r] # "IntegrityError"

\* the purchase_order_item rows of the order with this id
POItemsOf(rows, po_id) == SelectSeq(rows, LAMBDA it : it.purchase_order_id = po_id)

\* request r commits its purchase order in this step
CommitsPO(r) == pc[r] = "po_loop" /\ pc'[r] = "idle" /\ result'[r] = "ok"

\* C23: every persisted purchase order has status 'pending' and a
\* total_amount equal to the sum of total_price over its items; every item's
\* total_price is its quantity times its unit_price, and the unit_price is the
\* one typed into the form; the header and its items are committed in one
\* step or not at all (no header appears without the lines of its form, no
\* item without its header)
C23_PurchaseOrderConsistent ==
    [][/\ \A k \in 1..Len(purchase_orders') :
             LET po == purchase_orders'[k]
                 its == POItemsOf(po_items', po.id)
             IN /\ po.status = "pending"
                /\ po.total_amount = SumTotalPrice(its)
                /\ \A j \in 1..Len(its) :
                      its[j].total_price = its[j].quantity * its[j].unit_price
       /\ \A j \in 1..Len(po_items') :
             \E k \in 1..Len(purchase_orders') :
                purchase_orders'[k].id = po_items'[j].purchase_order_id
       /\ (purchase_orders' # purchase_orders \/ po_items' # po_items)
             => \E r \in Reqs :
                   /\ CommitsPO(r)
                   /\ Len(purchase_orders') = Len(purchase_orders) + 1
                   /\ SubSeq(purchase_orders', 1, Len(purchase_orders)) = purchase_orders
                   /\ SubSeq(po_items', 1, Len(po_items)) = po_items
                   /\ LET po == purchase_orders'[Len(purchase_orders')]
                          its == POItemsOf(po_items', po.id)
                      IN /\ Len(po_items') = Len(po_items) + Len(form[r])
                         /\ Len(its) = Len(form[r])
                         /\ \A j \in 1..Len(its) :
                               /\ its[j].product_id = form[r][j][1]
                               /\ its[j].quantity = form[r][j][2]
                               /\ its[j].unit_price = form[r][j][3]]_vars

\* an order of two lines with different unit prices is persisted, its first
\* line names a product whose own price is not the unit price typed, and
\* another order was rolled back in its item loop
C23_Witness ==
    /\ \E k \in 1..Len(purchase_orders) :
          LET its == POItemsOf(po_items, purchase_orders[k].id)
          IN /\ Len(its) = 2
             /\ its[1].unit_price # its[2].unit_price
             /\ its[1].product_id \in 1..Len(products)
             /\ products[its[1].product_id].price # its[1].unit_price
             /\ purchase_orders[k].total_amount = SumTotalPrice(its)
    /\ \E r \in Reqs : result[r] = "ValueError"

\* script s has run before and runs once more in this step
RunsAgain(s) == runs[s] >= 1 /\ runs'[s] = runs[s] + 1

\* the rows of users named admin
Admins(us) == {k \in 1..Len(us) : us[k].username = "admin"}

\* C24: seeding is idempotent: a run of init_database (run.py or main.py) on
\* a database the same script has already initialised adds no user, supplier,
\* customer, product, sale or sale item, in app.py's tables or in main.py's,
\* and changes no existing row, and the admin username stays unique in each
\* user table
C24_SeedingIdempotent ==
    [][/\ \A s \in Scripts :
             RunsAgain(s) => /\ TablesUnchanged
                             /\ createdStock' = createdStock
       /\ Cardinality(Admins(users')) = 1
       /\ Cardinality(Admins(main_users')) <= 1
       /\ runs'["main.py"] >= 1 => Cardinality(Admins(main_users')) = 1]_vars

\* both scripts have run twice on a database that holds the sample users,
\* suppliers, customers, products and sales of run.py and the admin,
\* suppliers and products of main.py
C24_Witness ==
    /\ \A s \in Scripts : runs[s] = MaxRuns
    /\ Len(users) = 3
    /\ suppliers = SampleSuppliers
    /\ customers = SampleCustomerNames
    /\ Len(products) = Len(SampleProducts)
    /\ sales # <<>>
    /\ items # <<>>
    /\ Len(main_users) = 1
    /\ main_suppliers = SampleSuppliers
    /\ Len(main_products) = Len(MainSampleProducts)

\* C25: when main.py's init_database runs on an empty database, every sample
\* product it creates gets the supplier_id of one of the sample suppliers
\* created in the same run: product i the supplier i modulo the number of
\* suppliers
C25_MainProductsHaveSuppliers ==
    [][( /\ runs'["main.py"] = runs["main.py"] + 1
         /\ main_products = <<>>
         /\ main_suppliers = <<>> )
       => \A p \in 1..Len(main_products') :
             /\ main_products'[p].supplier_id \in 1..Len(main_suppliers')
             /\ main_products'[p].supplier_id = ((p - 1) % Len(main_suppliers')) + 1]_vars

=============================================================================
